---------------------------- MODULE Spec2Model ----------------------------
(***************************************************************************)
(* A model of debreviate.js: the trie of reversed abbreviations, the       *)
(* incremental traverser, the backward scan of processInput, the debounce  *)
(* timer of onInput and the fetch-and-rebuild cycle of main.               *)
(*                                                                         *)
(* Strings are sequences of one-character strings; JavaScript offsets are  *)
(* 0-based and are kept 0-based in the state (s[i] of the code is          *)
(* s[i + 1] here).                                                         *)
(***************************************************************************)
EXTENDS Integers, Sequences, FiniteSets, TLC

VARIABLES
    protoRoot,        \* Trie.prototype.root, shared by every Trie instance
    trie,             \* the global trie: its own "root" property, or NoOwnRoot
    trie2,            \* a second Trie instance, or NotConstructed
    firstRun,         \* the global flag of main
    processTimeout,   \* the global timeout id of onInput
    timers,           \* the host's pending processInput timers: [id, remaining]
    nextTimerId,      \* the id the host's next setTimeout returns
    xhrs,             \* requests sent by main whose onload has not run yet
    listeners,        \* registrations of onInput on the document
    activeElement,    \* document.activeElement: tagName, value, selection
    addCalls,         \* history: calls of Trie.prototype.add so far
    added,            \* history: key -> data of the adds since the last clear
    lastOp,           \* history: the last operation applied
    prevRoot,         \* history: the root before the last rebuild of the trie
    lastResponse,     \* history: the response handleDataResponse handled last
    entry,            \* history: field text and cursor when processInput began
    writes,           \* history: the replacements the current run applied
    iterations,       \* history: loop iterations of the last run
    atExpiry,         \* history: the focused element when the last run began
    moved,            \* history: the cursor has moved since the last input event
    sinceInput,       \* history: time since the last qualifying input event
    burst,            \* history: events of the current burst
    runs              \* history: processInput runs since the last such event

trieVars  == <<protoRoot, trie, trie2>>
globVars  == <<firstRun, processTimeout, timers, nextTimerId, xhrs, listeners>>
trieHist  == <<addCalls, added, lastOp, prevRoot, lastResponse>>
scanHist  == <<entry, writes, iterations, atExpiry>>
timeHist  == <<moved, sinceInput, burst, runs>>
vars == <<protoRoot, trie, trie2, firstRun, processTimeout, timers, nextTimerId, xhrs,
          listeners, activeElement,
          addCalls, added, lastOp, prevRoot, lastResponse, entry, writes,
          iterations, atExpiry, moved, sinceInput, burst, runs>>

(***************************************************************************)
(* Bounds of the model.                                                    *)
(***************************************************************************)
MaxAdds == 2        \* calls of Trie.prototype.add in a behaviour of SpecTrie
MaxPairs == 2       \* key/value pairs of a fetched payload
MaxTextLen == 3     \* length of a text the user types, in SpecExpand
MaxProgLen == 2     \* length of a text the user types, in Spec
MaxTimers == 3      \* timers handed out by setTimeout in a behaviour
MaxXhrs == 2        \* requests in flight at a time
TickMs == 250       \* milliseconds by which the clock advances in one step

(***************************************************************************)
(* Characters and strings.                                                 *)
(***************************************************************************)
Lowers == <<"a","b","c","d","e","f","g","h","i","j","k","l","m",
            "n","o","p","q","r","s","t","u","v","w","x","y","z">>
Uppers == <<"A","B","C","D","E","F","G","H","I","J","K","L","M",
            "N","O","P","Q","R","S","T","U","V","W","X","Y","Z">>
Digits == {"0","1","2","3","4","5","6","7","8","9"}

Range(s) == {s[i] : i \in DOMAIN s}

\* String.prototype.toLowerCase on one character
toLowerCase(c) ==
    IF \E i \in DOMAIN Uppers : Uppers[i] = c
    THEN Lowers[CHOOSE i \in DOMAIN Uppers : Uppers[i] = c]
    ELSE c

\* String.prototype.toUpperCase on one character
toUpperCase(c) ==
    IF \E i \in DOMAIN Lowers : Lowers[i] = c
    THEN Uppers[CHOOSE i \in DOMAIN Lowers : Lowers[i] = c]
    ELSE c

\* String.prototype.toLowerCase on a string
strToLowerCase(s) == [i \in DOMAIN s |-> toLowerCase(s[i])]

\* str.substr(start): the characters from 0-based offset start to the end
substrFrom(s, start) == SubSeq(s, start + 1, Len(s))

\* str.substr(0, length)
substrTo(s, length) == SubSeq(s, 1, IF length < Len(s) THEN length ELSE Len(s))

\* str.split('').reverse().join('')
reverseString(str) == [i \in DOMAIN str |-> str[Len(str) + 1 - i]]

isBoundaryCharacterNoDigits(char) == \lnot (char \in Range(Lowers) \cup Range(Uppers))

\* !/[a-z0-9]/i.test(char)
isBoundaryCharacter(char) ==
    \lnot (char \in Range(Lowers) \cup Range(Uppers) \cup Digits)

isEditableElement(element) == element.tagName \in {"INPUT", "TEXTAREA"}

(***************************************************************************)
(* The trie.  A node is the record of its three fields; edges is a         *)
(* function from characters to the child nodes, so a node value is the     *)
(* whole subtree below it.                                                 *)
(***************************************************************************)
\* null, as a value no string of characters equals
Null == <<"null">>
\* a Trie instance that has no own "root" property, and one that has
NoOwnRoot == [own |-> FALSE, root |-> <<>>]
\* the value of a variable no Trie has been assigned to
NotConstructed == [own |-> FALSE, root |-> <<"undefined">>]
OwnRoot(node) == [own |-> TRUE, root |-> node]
NoEdges == [c \in {} |-> Null]

\* new TrieNode()
TrieNode == [edges |-> NoEdges, isLeaf |-> FALSE, data |-> Null]

\* this.root of a Trie instance: its own property, else the prototype's
RootOf(t, proto) == IF t.own THEN t.root ELSE proto

MarkLeafKeepData(node, data) == [node EXCEPT !.isLeaf = TRUE]

\* lines 39-42: the node of the last character gets the data and the flag
MarkLeaf(node, data) == [node EXCEPT !.data = data, !.isLeaf = TRUE]

ChildOfAlwaysNew(currentNode, edge) == TrieNode

\* lines 35-38: the node behind edge, created when the edge is missing
ChildOf(currentNode, edge) ==
    IF edge \in DOMAIN currentNode.edges THEN currentNode.edges[edge] ELSE TrieNode

\* the loop of Trie.prototype.add from index i (0-based) at currentNode
RECURSIVE AddFrom(_, _, _, _)
AddFrom(currentNode, value, data, i) ==
    IF i >= Len(value) THEN currentNode
    ELSE LET edge  == value[i + 1]
             child == ChildOf(currentNode, edge)
             next  == IF i = Len(value) - 1 THEN MarkLeaf(child, data) ELSE child
             below == AddFrom(next, value, data, i + 1)
         IN  [currentNode EXCEPT
                 !.edges = [c \in DOMAIN currentNode.edges \cup {edge} |->
                               IF c = edge THEN below ELSE currentNode.edges[c]]]

\* Trie.prototype.add, on the node that this.root names
TrieAdd(root, value, data) == AddFrom(root, value, data, 0)

TrieClearKeep(root) == root

\* Trie.prototype.clear: the value given to the instance's own root
TrieClear(root) == TrieNode

\* new TrieTraverser(trie): cursor_ is trie.root
TrieTraverser(t, proto) == RootOf(t, proto)

\* TrieTraverser.prototype.traverse: the object it returns
traverse(cursor, char) ==
    IF char \notin DOMAIN cursor.edges
    THEN [couldTraverse |-> FALSE]
    ELSE [couldTraverse |-> TRUE,
          isLeaf |-> cursor.edges[char].isLeaf,
          data   |-> cursor.edges[char].data]

\* TrieTraverser.prototype.traverse: cursor_ after the call (line 108)
traverseCursor(cursor, char) ==
    IF char \notin DOMAIN cursor.edges THEN cursor ELSE cursor.edges[char]

\* the results of feeding the characters of s one by one to a traverser at
\* cursor; after a failed step the cursor is where it was
RECURSIVE TraverseAll(_, _)
TraverseAll(cursor, s) ==
    IF s = <<>> THEN <<>>
    ELSE <<traverse(cursor, Head(s))>>
             \o TraverseAll(traverseCursor(cursor, Head(s)), Tail(s))

(***************************************************************************)
(* The main program.  A response is the parsed JSON: feed tells whether    *)
(* it has the shape data.feed.entry at all, entry is the list of the       *)
(* cells' content.$t strings.  A JavaScript object is the sequence of its  *)
(* <<key, value>> properties in for-in order (the keys used here are never *)
(* array indices, so that is the order of first assignment).               *)
(***************************************************************************)
WAIT_TIME == 500

\* obj[key] = val
ObjSet(obj, key, val) ==
    IF \E i \in DOMAIN obj : obj[i][1] = key
    THEN [i \in DOMAIN obj |-> IF obj[i][1] = key THEN <<key, val>> ELSE obj[i]]
    ELSE Append(obj, <<key, val>>)

\* the loop of parseData from index i (lines 224-227)
RECURSIVE ParseFrom(_, _, _)
ParseFrom(cells, i, result) ==
    IF i >= Len(cells) THEN result
    ELSE ParseFrom(cells, i + 2, ObjSet(result, cells[i + 1], cells[i + 2]))

\* parseData (lines 214-229)
parseData(data) ==
    LET numCells == Len(data.entry)
    IN  IF numCells < 4 \/ numCells % 2 # 0
        THEN <<>>
        ELSE ParseFrom(data.entry, 2, <<>>)

\* the loop of handleDataResponse from property i of data (lines 314-316)
RECURSIVE AddEach(_, _, _)
AddEach(root, data, i) ==
    IF i > Len(data) THEN root
    ELSE AddEach(TrieAdd(root, strToLowerCase(reverseString(data[i][1])), data[i][2]),
                 data, i + 1)

handleDataResponseNoClear(t, proto, response) ==
    IF ~response.feed THEN t
    ELSE OwnRoot(AddEach(RootOf(t, proto), parseData(response), 1))

handleDataResponseClearOnly(t, proto, response) ==
    IF ~response.feed THEN t ELSE OwnRoot(TrieClear(RootOf(t, proto)))

handleDataResponseKeepOnEmpty(t, proto, response) ==
    IF ~response.feed \/ parseData(response) = <<>> THEN t
    ELSE OwnRoot(AddEach(TrieClear(RootOf(t, proto)), parseData(response), 1))

\* handleDataResponse (lines 310-319): the root of the trie when it returns.
\* A response that is not of the shape data.feed.entry makes line 311 throw
\* before the trie is touched.  showSplash changes only the page's styling.
handleDataResponse(t, proto, response) ==
    IF ~response.feed THEN t
    ELSE OwnRoot(AddEach(TrieClear(RootOf(t, proto)), parseData(response), 1))

ReplacementVerbatim(char, data) == data

\* lines 286-291: the text inserted for a match whose first character is char
Replacement(char, data) ==
    IF char # toLowerCase(char) /\ Len(data) > 0
    THEN <<toUpperCase(data[1])>> \o substrFrom(data, 1)
    ELSE data

NewCursorAtReplacementLength(before, replacement) == Len(replacement)

\* line 296: the offset given to selectionStart and selectionEnd
NewCursor(before, replacement) == Len(before) + Len(replacement)

\* lines 285-296, at a leaf that passed the boundary check: the element after
\* the assignments, and the record of the write
Replace(f, cursorPosition, nextCharPosition, char, result) ==
    LET before      == substrTo(f.element.value, nextCharPosition)
        replacement == Replacement(char, result.data)
        after       == substrFrom(f.element.value, cursorPosition)
    IN  [f EXCEPT
            !.element = [f.element EXCEPT
                            !.value = before \o replacement \o after,
                            !.selectionStart = NewCursor(before, replacement),
                            !.selectionEnd = NewCursor(before, replacement)],
            !.writes = Append(f.writes,
                              [matchStart  |-> nextCharPosition,
                               char        |-> char,
                               data        |-> result.data,
                               replacement |-> replacement,
                               valueBefore |-> f.element.value])]

RECURSIVE ScanLoopWritesOnMiss(_, _)
ScanLoopWritesOnMiss(f, cursorPosition) ==
    LET offset           == f.offset - 1
        nextCharPosition == cursorPosition + offset
        g                == [f EXCEPT !.offset = offset, !.iterations = @ + 1]
    IN  IF nextCharPosition < 0 THEN g
        ELSE IF nextCharPosition >= Len(f.element.value)
        THEN [g EXCEPT !.threw = TRUE]
        ELSE
        LET char   == f.element.value[nextCharPosition + 1]
            result == traverse(f.cursor, toLowerCase(char))
            h      == [g EXCEPT !.cursor = traverseCursor(f.cursor, toLowerCase(char))]
        IN  IF ~result.couldTraverse
            THEN Replace(g, cursorPosition, nextCharPosition, char, [data |-> <<>>])
            ELSE IF result.isLeaf
            THEN IF nextCharPosition = 0
                    \/ isBoundaryCharacter(f.element.value[nextCharPosition])
                 THEN ScanLoopWritesOnMiss(
                          Replace(h, cursorPosition, nextCharPosition, char, result),
                          cursorPosition)
                 ELSE ScanLoopWritesOnMiss(h, cursorPosition)
            ELSE ScanLoopWritesOnMiss(h, cursorPosition)

\* the while loop of processInput (lines 268-302).  f is the frame: the
\* element, offset, the traverser's cursor_, and the history of the run.
\* Leaving the leaf branch (lines 280-297) reaches the end of the loop body,
\* so the loop goes round again.
RECURSIVE ScanLoop(_, _)
ScanLoop(f, cursorPosition) ==
    LET offset           == f.offset - 1
        nextCharPosition == cursorPosition + offset
        g                == [f EXCEPT !.offset = offset, !.iterations = @ + 1]
    IN  IF nextCharPosition < 0 THEN g
        ELSE IF nextCharPosition >= Len(f.element.value)
        THEN [g EXCEPT !.threw = TRUE]     \* char is undefined: line 277 throws
        ELSE
        LET char   == f.element.value[nextCharPosition + 1]
            result == traverse(f.cursor, toLowerCase(char))
            h      == [g EXCEPT !.cursor = traverseCursor(f.cursor, toLowerCase(char))]
        IN  IF ~result.couldTraverse THEN g
            ELSE IF result.isLeaf
            THEN IF nextCharPosition = 0
                    \/ isBoundaryCharacter(f.element.value[nextCharPosition])
                 THEN ScanLoop(Replace(h, cursorPosition, nextCharPosition, char, result),
                               cursorPosition)
                 ELSE ScanLoop(h, cursorPosition)
            ELSE ScanLoop(h, cursorPosition)

processInputFromTheEnd(element, t, proto) ==
    LET f == [element |-> element, offset |-> 0, cursor |-> TrieTraverser(t, proto),
              writes |-> <<>>, iterations |-> 0, threw |-> FALSE]
    IN  IF ~isEditableElement(element) THEN f
        ELSE ScanLoop(f, Len(element.value))

\* processInput (lines 254-303) on the focused element: the frame at return
processInput(element, t, proto) ==
    LET f == [element |-> element, offset |-> 0, cursor |-> TrieTraverser(t, proto),
              writes |-> <<>>, iterations |-> 0, threw |-> FALSE]
    IN  IF ~isEditableElement(element) THEN f
        ELSE ScanLoop(f, element.selectionStart)

(***************************************************************************)
(* The state every specification starts from: the script has been          *)
(* evaluated (lines 187-201), main has not been called.                    *)
(***************************************************************************)
NoEntry == [value |-> <<>>, cursorPosition |-> 0]
NoResponse == [feed |-> FALSE, entry |-> <<>>]
EmptyField == [tagName |-> "INPUT", value |-> <<>>,
               selectionStart |-> 0, selectionEnd |-> 0]

InitTrie == protoRoot = TrieNode /\ trie = NoOwnRoot /\ trie2 = NotConstructed
InitGlobals ==
    /\ firstRun = FALSE
    /\ processTimeout = 0
    /\ timers = {}
    /\ nextTimerId = 1
    /\ xhrs = 0
    /\ listeners = 0
InitHist ==
    /\ addCalls = 0
    /\ added = NoEdges
    /\ lastOp = "new"
    /\ prevRoot = TrieNode
    /\ lastResponse = NoResponse
    /\ entry = NoEntry
    /\ writes = <<>>
    /\ iterations = 0
    /\ atExpiry = EmptyField
    /\ moved = FALSE
    /\ sinceInput = 0
    /\ burst = 0
    /\ runs = 0

(***************************************************************************)
(* SpecTrie: the Trie and the TrieTraverser alone.  One Trie instance is   *)
(* constructed; add and clear are applied to it in every order.            *)
(***************************************************************************)
KeyChars == {"a", "b"}
MaxKeyLen == 2
DataValues == {<<"x">>, <<"y">>}

Strings(chars, n) == UNION {[1..k -> chars] : k \in 0..n}
TrieKeys == Strings(KeyChars, MaxKeyLen)

\* the orders in which the keys of a set can be enumerated
Orders(S) == {o \in [1..Cardinality(S) -> S] : Range(o) = S}

\* root after add(keys[1], m[keys[1]]), add(keys[2], m[keys[2]]), ...
RECURSIVE AddAll(_, _, _)
AddAll(root, keys, m) ==
    IF keys = <<>> THEN root
    ELSE AddAll(TrieAdd(root, Head(keys), m[Head(keys)]), Tail(keys), m)

\* the assignment an in-place change of this.root's node amounts to
SetRoot(node) ==
    IF trie.own
    THEN trie' = OwnRoot(node) /\ protoRoot' = protoRoot
    ELSE protoRoot' = node /\ trie' = trie

TAdd(k, v) ==
    /\ addCalls < MaxAdds
    /\ addCalls' = addCalls + 1
    /\ SetRoot(TrieAdd(RootOf(trie, protoRoot), k, v))
    /\ added' = [x \in DOMAIN added \cup {k} |-> IF x = k THEN v ELSE added[x]]
    /\ lastOp' = "add"
    /\ prevRoot' = TrieNode
    /\ UNCHANGED <<trie2, lastResponse>>

TClear ==
    /\ trie' = OwnRoot(TrieClear(RootOf(trie, protoRoot)))
    /\ added' = NoEdges
    /\ lastOp' = "clear"
    /\ prevRoot' = TrieNode
    /\ UNCHANGED <<protoRoot, trie2, addCalls, lastResponse>>

\* clear(), then the same (key, data) pairs added again, in any order
TReAdd ==
    /\ added # NoEdges
    /\ \E o \in Orders(DOMAIN added) :
           trie' = OwnRoot(AddAll(TrieClear(RootOf(trie, protoRoot)), o, added))
    /\ prevRoot' = RootOf(trie, protoRoot)
    /\ lastOp' = "readd"
    /\ UNCHANGED <<protoRoot, trie2, addCalls, added, lastResponse>>

InitT == InitTrie /\ InitGlobals /\ InitHist /\ activeElement = EmptyField

NextT ==
    \/ \E k \in TrieKeys, v \in DataValues :
           TAdd(k, v) /\ UNCHANGED <<globVars, activeElement, scanHist, timeHist>>
    \/ TClear /\ UNCHANGED <<globVars, activeElement, scanHist, timeHist>>
    \/ TReAdd /\ UNCHANGED <<globVars, activeElement, scanHist, timeHist>>

SpecTrie == InitT /\ [][NextT]_vars

Root == RootOf(trie, protoRoot)

\* the sequences fed to a traverser when two tries are compared
Probes == Strings(KeyChars \cup {"c"}, MaxKeyLen + 1)

IsProperPrefix(k1, k2) == Len(k1) < Len(k2) /\ SubSeq(k2, 1, Len(k1)) = k1

\* C5: every non-empty key k added with data v (v the last data given to k)
\* is traversed by a fresh TrieTraverser with couldTraverse = true at every
\* character and isLeaf = true, data = v at the last one, whatever else was
\* added before or after.
C5_AddedKeyIsFound ==
    \A k \in DOMAIN added :
        k # <<>> =>
            LET r == TraverseAll(TrieTraverser(trie, protoRoot), k)
            IN  /\ \A i \in DOMAIN r : r[i].couldTraverse
                /\ r[Len(k)].isLeaf = TRUE
                /\ r[Len(k)].data = added[k]

\* a key was given a second data while a longer key through it is stored
C5_Witness ==
    /\ lastOp = "add"
    /\ \E k1, k2 \in DOMAIN added :
           /\ IsProperPrefix(k1, k2) /\ k1 # <<>>
           /\ added[k1] # added[k2]

\* C6: when k1, a non-empty proper prefix of k2, and k2 are both stored,
\* traversing k2 reports isLeaf = true with k1's data at the step that
\* consumes the last character of k1, in whichever order they were added.
C6_PrefixKeyReportedFirst ==
    \A k1, k2 \in DOMAIN added :
        (k1 # <<>> /\ IsProperPrefix(k1, k2)) =>
            LET r == TraverseAll(TrieTraverser(trie, protoRoot), k2)
            IN  /\ r[Len(k1)].couldTraverse
                /\ r[Len(k1)].isLeaf = TRUE
                /\ r[Len(k1)].data = added[k1]
                /\ Len(k1) < Len(r)

C6_Witness ==
    \E k1, k2 \in DOMAIN added :
        /\ k1 # <<>> /\ IsProperPrefix(k1, k2)
        /\ TraverseAll(Root, k2)[Len(k1)].isLeaf = TRUE
        /\ TraverseAll(Root, k2)[Len(k2)].data = added[k2]

\* C7: after clear() followed by adding the same (key, data) pairs again,
\* every character sequence gives a fresh traverser the same results as on
\* the trie before; and right after clear() no character leaves the root.
C7_ClearAndReAddIsTheSameTrie ==
    /\ lastOp = "readd" =>
           \A s \in Probes : TraverseAll(Root, s) = TraverseAll(prevRoot, s)
    /\ lastOp = "clear" =>
           \A c \in KeyChars \cup {"c"} : ~traverse(Root, c).couldTraverse

\* a trie of two keys, one a prefix of the other, has been cleared and refilled
C7_Witness ==
    /\ lastOp = "readd"
    /\ \E k1, k2 \in DOMAIN added : k1 # <<>> /\ IsProperPrefix(k1, k2)
    /\ TraverseAll(Root, <<"a">>)[1].couldTraverse

(***************************************************************************)
(* The characters, abbreviations and texts the specifications draw from:   *)
(* a small alphabet, and the documented scenarios.                         *)
(***************************************************************************)
TextChars == {"a", "A", " ", "1"}
GenericKeys == {<<"a">>, <<"A">>, <<"a", "a">>, <<" ", "a">>}
GenericData == {<<"b">>, <<"a", "b">>}

Title == <<"t">>
Brb == <<"b","r","b">>
BeRightBack == <<"b","e"," ","r","i","g","h","t"," ","b","a","c","k">>
Omw == <<"o","m","w">>
OnMyWay == <<"o","n"," ","m","y"," ","w","a","y">>
HeyBrb == <<"h","e","y"," ","b","r","b">>
Xbrb == <<"x","b","r","b">>
OmwTyped == <<"O","m","w">>
ScenarioTexts == {HeyBrb, Xbrb, OmwTyped}

Response(cells) == [feed |-> TRUE, entry |-> cells]
BrbResponse == Response(<<Title, Title, Brb, BeRightBack>>)
OmwResponse == Response(<<Title, Title, Omw, OnMyWay>>)

(***************************************************************************)
(* What the user does to the focused field, and the run of processInput.   *)
(* Every action but ProcessInputRun forgets the history of the last run.   *)
(***************************************************************************)
NoScan ==
    entry' = NoEntry /\ writes' = <<>> /\ iterations' = 0 /\ atExpiry' = EmptyField

\* a character typed at the cursor replaces the selection
Type(c, maxLen) ==
    /\ isEditableElement(activeElement)
    /\ Len(activeElement.value) < maxLen
    /\ activeElement' =
           [activeElement EXCEPT
               !.value = substrTo(@, activeElement.selectionStart) \o <<c>>
                         \o substrFrom(@, activeElement.selectionEnd),
               !.selectionStart = activeElement.selectionStart + 1,
               !.selectionEnd = activeElement.selectionStart + 1]

MoveCursor(p) ==
    /\ isEditableElement(activeElement)
    /\ p \in 0..Len(activeElement.value)
    /\ <<activeElement.selectionStart, activeElement.selectionEnd>> # <<p, p>>
    /\ activeElement' = [activeElement EXCEPT !.selectionStart = p, !.selectionEnd = p]

\* the selection is extended from the cursor to the end of the text
SelectToEnd ==
    /\ isEditableElement(activeElement)
    /\ activeElement.selectionEnd < Len(activeElement.value)
    /\ activeElement' = [activeElement EXCEPT !.selectionEnd = Len(activeElement.value)]

\* the whole text is replaced (a paste over everything), cursor at its end
SetField(text) ==
    /\ isEditableElement(activeElement)
    /\ activeElement.value # text
    /\ activeElement' = [activeElement EXCEPT !.value = text,
                                              !.selectionStart = Len(text),
                                              !.selectionEnd = Len(text)]

\* the focus leaves the field for the page body, or enters an empty field
Blur ==
    /\ isEditableElement(activeElement)
    /\ activeElement' = [EmptyField EXCEPT !.tagName = "BODY"]

Focus(tag) ==
    /\ ~isEditableElement(activeElement)
    /\ activeElement' = [EmptyField EXCEPT !.tagName = tag]

\* the texts processInput is run on: those typed, and the scenarios'
InScope(element) ==
    Len(element.value) <= MaxTextLen \/ element.value \in ScenarioTexts

\* processInput runs to completion (the page is single-threaded)
ProcessInputRun ==
    LET f == processInput(activeElement, trie, protoRoot)
    IN  /\ activeElement' = f.element
        /\ atExpiry' = activeElement
        /\ entry' = IF isEditableElement(activeElement)
                    THEN [value |-> activeElement.value,
                          cursorPosition |-> activeElement.selectionStart]
                    ELSE NoEntry
        /\ writes' = f.writes
        /\ iterations' = f.iterations
        /\ lastOp' = "processInput"

\* the adds handleDataResponse makes for a response: reversed, lower-cased
\* key -> the data of the last add of that key
RECURSIVE AddedBy(_, _, _)
AddedBy(data, i, m) ==
    IF i > Len(data) THEN m
    ELSE LET k == strToLowerCase(reverseString(data[i][1]))
         IN  AddedBy(data, i + 1,
                     [x \in DOMAIN m \cup {k} |-> IF x = k THEN data[i][2] ELSE m[x]])

(***************************************************************************)
(* SpecExpand: processInput on every trie a small response builds and      *)
(* every short text and cursor offset, together with the texts and         *)
(* abbreviations of the documented scenarios.                              *)
(***************************************************************************)
\* the cells of a sheet: the two title cells, then the pairs
RECURSIVE Cells(_)
Cells(pairs) ==
    IF pairs = <<>> THEN <<>>
    ELSE <<Head(pairs)[1], Head(pairs)[2]>> \o Cells(Tail(pairs))

PairSeqs == UNION {[1..n -> GenericKeys \X GenericData] : n \in 0..MaxPairs}
ExpandResponses ==
    {Response(<<Title, Title>> \o Cells(ps)) : ps \in PairSeqs}
        \cup {BrbResponse, OmwResponse}

\* main has run once and its response has been handled
InitLoaded(r) ==
    /\ protoRoot = TrieNode
    /\ trie = handleDataResponse(NoOwnRoot, TrieNode, r)
    /\ trie2 = NotConstructed
    /\ firstRun = TRUE
    /\ processTimeout = 0
    /\ timers = {}
    /\ nextTimerId = 1
    /\ xhrs = 0
    /\ listeners = 1
    /\ activeElement = EmptyField
    /\ addCalls = 0
    /\ added = AddedBy(parseData(r), 1, NoEdges)
    /\ lastOp = "handleDataResponse"
    /\ prevRoot = TrieNode
    /\ lastResponse = NoResponse    \* kept by Spec only
    /\ entry = NoEntry
    /\ writes = <<>>
    /\ iterations = 0
    /\ atExpiry = EmptyField
    /\ moved = FALSE
    /\ sinceInput = 0
    /\ burst = 0
    /\ runs = 0

InitE == \E r \in ExpandResponses : InitLoaded(r)

Edit ==
    \/ \E c \in TextChars : Type(c, MaxTextLen)
    \/ \E p \in 0..MaxTextLen : MoveCursor(p)
    \/ SelectToEnd
    \/ \E text \in ScenarioTexts : SetField(text)
    \/ Blur
    \/ Focus("INPUT")

NextE ==
    \/ Edit /\ NoScan /\ lastOp' = "edit"
            /\ UNCHANGED <<trieVars, globVars, addCalls, added, prevRoot, lastResponse,
                           timeHist>>
    \/ InScope(activeElement) /\ ProcessInputRun
            /\ UNCHANGED <<trieVars, globVars, addCalls, added, prevRoot, lastResponse,
                           timeHist>>

SpecExpand == InitE /\ [][NextE]_vars

(***************************************************************************)
(* Spec: the program.  main starts fetches, their responses rebuild the    *)
(* trie, the user types into the focused field, onInput restarts the       *)
(* debounce timer and the host runs processInput when the timer is due.    *)
(* Every handler runs to completion before the next one starts.  The host  *)
(* runs the callback of a timer at or after its time, not before.          *)
(***************************************************************************)
ProgChars == {"a"}
Sheet == <<Title, Title, <<"a">>, <<"a", "b">>, <<"a", "a">>, <<"b">>>>
\* the responses: every prefix of the sheet's cells, and one that is no feed
ProgResponses ==
    {Response(SubSeq(Sheet, 1, n)) : n \in 0..Len(Sheet)} \cup {NoResponse}

Max(a, b) == IF a > b THEN a ELSE b
Min(a, b) == IF a < b THEN a ELSE b

onInputNoClear(target, g) ==
    IF ~isEditableElement(target) THEN g
    ELSE [processTimeout |-> g.nextTimerId,
          timers |-> g.timers \cup {[id |-> g.nextTimerId, remaining |-> WAIT_TIME]},
          nextTimerId |-> g.nextTimerId + 1]

onInputKeepPending(target, g) ==
    IF ~isEditableElement(target) \/ g.timers # {} THEN g
    ELSE [processTimeout |-> g.nextTimerId,
          timers |-> {[id |-> g.nextTimerId, remaining |-> WAIT_TIME]},
          nextTimerId |-> g.nextTimerId + 1]

\* onInput (lines 235-247) on the globals g and the host's timers
onInput(target, g) ==
    IF ~isEditableElement(target) THEN g
    ELSE LET cleared == IF g.processTimeout # 0
                        THEN {t \in g.timers : t.id # g.processTimeout}
                        ELSE g.timers
         IN  [processTimeout |-> g.nextTimerId,
              timers |-> cleared \cup {[id |-> g.nextTimerId, remaining |-> WAIT_TIME]},
              nextTimerId |-> g.nextTimerId + 1]

\* an input event reaches every registration of onInput on the document
RECURSIVE Dispatch(_, _, _)
Dispatch(n, target, g) ==
    IF n = 0 THEN g ELSE Dispatch(n - 1, target, onInput(target, g))

Globals == [processTimeout |-> processTimeout, timers |-> timers,
            nextTimerId |-> nextTimerId]

SetGlobals(g) ==
    /\ processTimeout' = g.processTimeout
    /\ timers' = g.timers
    /\ nextTimerId' = g.nextTimerId

NoRebuild == prevRoot' = TrieNode /\ lastResponse' = NoResponse

MainClearsTheTrie ==
    /\ xhrs < MaxXhrs
    /\ xhrs' = xhrs + 1
    /\ IF ~firstRun
       THEN listeners' = listeners + 1 /\ firstRun' = TRUE
       ELSE UNCHANGED <<listeners, firstRun>>
    /\ trie' = OwnRoot(TrieNode)
    /\ lastOp' = "main"
    /\ NoRebuild /\ NoScan
    /\ UNCHANGED <<protoRoot, trie2, processTimeout, timers, nextTimerId, activeElement,
                   addCalls, added, timeHist>>

MainRegistersAgain ==
    /\ xhrs < MaxXhrs
    /\ xhrs' = xhrs + 1
    /\ listeners' = listeners + 1 /\ firstRun' = TRUE
    /\ lastOp' = "main"
    /\ NoRebuild /\ NoScan
    /\ UNCHANGED <<trieVars, processTimeout, timers, nextTimerId, activeElement,
                   addCalls, added, timeHist>>

\* main (lines 364-376); the id only selects the URL
Main ==
    /\ xhrs < MaxXhrs
    /\ xhrs' = xhrs + 1
    /\ IF ~firstRun
       THEN listeners' = listeners + 1 /\ firstRun' = TRUE
       ELSE UNCHANGED <<listeners, firstRun>>
    /\ lastOp' = "main"
    /\ NoRebuild /\ NoScan
    /\ UNCHANGED <<trieVars, processTimeout, timers, nextTimerId, activeElement,
                   addCalls, added, timeHist>>

\* the onload of a request runs handleDataResponse on its response
HandleResponse(r) ==
    /\ xhrs > 0
    /\ xhrs' = xhrs - 1
    /\ trie' = handleDataResponse(trie, protoRoot, r)
    /\ added' = IF r.feed THEN AddedBy(parseData(r), 1, NoEdges) ELSE added
    /\ prevRoot' = RootOf(trie, protoRoot)
    /\ lastResponse' = r
    /\ lastOp' = "handleDataResponse"
    /\ NoScan
    /\ UNCHANGED <<protoRoot, trie2, firstRun, processTimeout, timers, nextTimerId, listeners,
                   activeElement, addCalls, timeHist>>

\* a request fails: its onload never runs
FetchFails ==
    /\ xhrs > 0
    /\ xhrs' = xhrs - 1
    /\ lastOp' = "fetch failed"
    /\ NoRebuild /\ NoScan
    /\ UNCHANGED <<trieVars, firstRun, processTimeout, timers, nextTimerId, listeners,
                   activeElement, addCalls, added, timeHist>>

\* the user types a character: the field changes and its input event is
\* dispatched with the field as target
TypeEvent(c) ==
    /\ Type(c, MaxProgLen)
    /\ listeners > 0 => nextTimerId <= MaxTimers
    /\ SetGlobals(Dispatch(listeners, activeElement, Globals))
    /\ IF listeners > 0
       THEN /\ moved' = FALSE
            /\ burst' = IF timers # {} /\ sinceInput < WAIT_TIME THEN burst + 1 ELSE 1
            /\ sinceInput' = 0
            /\ runs' = 0
       ELSE UNCHANGED timeHist
    /\ lastOp' = "input"
    /\ NoRebuild /\ NoScan
    /\ UNCHANGED <<trieVars, firstRun, xhrs, listeners, addCalls, added>>

\* an input event whose target is not an INPUT or a TEXTAREA
InputElsewhere ==
    /\ listeners > 0
    /\ SetGlobals(Dispatch(listeners, [tagName |-> "DIV"], Globals))
    /\ lastOp' = "input elsewhere"
    /\ NoRebuild /\ NoScan
    /\ UNCHANGED <<trieVars, firstRun, xhrs, listeners, activeElement, addCalls, added,
                   timeHist>>

\* the cursor or the focus moves: no input event
Moves ==
    /\ \/ \E p \in 0..MaxProgLen : MoveCursor(p)
       \/ Blur
       \/ Focus("TEXTAREA")
    /\ moved' = TRUE
    /\ lastOp' = "move"
    /\ NoRebuild /\ NoScan
    /\ UNCHANGED <<trieVars, globVars, addCalls, added, sinceInput, burst, runs>>

\* time passes
Tick ==
    /\ timers' = {[t EXCEPT !.remaining = Max(0, @ - TickMs)] : t \in timers}
    /\ sinceInput' = Min(WAIT_TIME, sinceInput + TickMs)
    /\ UNCHANGED <<trieVars, firstRun, processTimeout, nextTimerId, xhrs, listeners,
                   activeElement, trieHist, scanHist, moved, burst, runs>>

\* the host runs the callback of a timer that is due
TimerFires(t) ==
    /\ t \in timers
    /\ t.remaining = 0
    /\ timers' = timers \ {t}
    /\ ProcessInputRun
    /\ runs' = runs + 1
    /\ NoRebuild
    /\ UNCHANGED <<trieVars, firstRun, processTimeout, nextTimerId, xhrs, listeners,
                   addCalls, added, moved, sinceInput, burst>>

Init == InitTrie /\ InitGlobals /\ InitHist /\ activeElement = EmptyField

Next ==
    \/ Main
    \/ \E r \in ProgResponses : HandleResponse(r)
    \/ FetchFails
    \/ \E c \in ProgChars : TypeEvent(c)
    \/ InputElsewhere
    \/ Moves
    \/ Tick
    \/ \E t \in timers : TimerFires(t)

Spec == Init /\ [][Next]_vars

\* the trie holds the abbreviation k with expansion v and nothing else
OnlyStored(k, v) ==
    added = [x \in {strToLowerCase(reverseString(k))} |-> v]

\* processInput has just run on text with the cursor at offset at
RanOn(text, at) ==
    /\ lastOp = "processInput"
    /\ entry = [value |-> text, cursorPosition |-> at]

Alphanumeric == Range(Lowers) \cup Range(Uppers) \cup Digits

CapitalizeFirst(d) == IF d = <<>> THEN d ELSE <<toUpperCase(d[1])>> \o Tail(d)

HeyBeRightBack == <<"h","e","y"," ">> \o BeRightBack
OnMyWayCapitalized == <<"O","n"," ","m","y"," ","w","a","y">>

\* C1: when processInput has applied a replacement for the span
\* [matchStart, cursorPosition) of the text it was entered with, then at its
\* return the field's text is text[0..matchStart) + replacement +
\* text[cursorPosition..end) and selectionStart = selectionEnd =
\* matchStart + length(replacement).
C1_ReplacementIsFinalText ==
    lastOp = "processInput" =>
        \A i \in DOMAIN writes :
            LET w == writes[i]
            IN  /\ activeElement.value =
                       SubSeq(entry.value, 1, w.matchStart) \o w.replacement
                           \o substrFrom(entry.value, entry.cursorPosition)
                /\ activeElement.selectionStart = w.matchStart + Len(w.replacement)
                /\ activeElement.selectionEnd = w.matchStart + Len(w.replacement)

\* C2 as stated: with only "brb" -> "be right back" stored, processInput on
\* "hey brb" with the cursor at 7 leaves "hey be right back" and the cursor
\* at offset 18.
C2_HeyBrbCursor18 ==
    (RanOn(HeyBrb, 7) /\ OnlyStored(Brb, BeRightBack)) =>
        /\ activeElement.value = HeyBeRightBack
        /\ activeElement.selectionStart = 18

\* C2 as amended: with only "brb" -> "be right back" stored, processInput on
\* "hey brb" with the cursor at 7 leaves "hey be right back" and the cursor
\* at offset 17, the end of the text.
C2_HeyBrbCursor17 ==
    (RanOn(HeyBrb, 7) /\ OnlyStored(Brb, BeRightBack)) =>
        /\ activeElement.value = HeyBeRightBack
        /\ activeElement.selectionStart = 17
        /\ activeElement.selectionEnd = 17

C2_Witness ==
    /\ RanOn(HeyBrb, 7) /\ OnlyStored(Brb, BeRightBack)
    /\ Len(writes) = 1

\* C3: every replacement processInput applies starts at offset 0 or right
\* after a character that is not alphanumeric; with only "brb" stored,
\* "xbrb" with the cursor at 4 is left unchanged.
C3_ReplacementStartsAtBoundary ==
    /\ lastOp = "processInput" =>
           \A i \in DOMAIN writes :
               \/ writes[i].matchStart = 0
               \/ /\ entry.value[writes[i].matchStart] \notin Alphanumeric
                  /\ writes[i].valueBefore[writes[i].matchStart] \notin Alphanumeric
    /\ (RanOn(Xbrb, 4) /\ OnlyStored(Brb, BeRightBack)) =>
           /\ writes = <<>>
           /\ activeElement.value = Xbrb
           /\ activeElement.selectionStart = 4

\* "xbrb" was scanned through the leaf of "brb" and left alone
C3_Witness ==
    /\ RanOn(Xbrb, 4) /\ OnlyStored(Brb, BeRightBack)
    /\ iterations >= 3

\* C4: the text a replacement inserts is the expansion stored for the
\* matched abbreviation, its first character upper-cased when the character
\* at matchStart is upper case and unchanged otherwise; the abbreviation is
\* matched whatever the case of the stored key and of the typed text; with
\* only "omw" -> "on my way" stored, "Omw" with the cursor at 3 gives
\* "On my way".
C4_CapitalizedLikeTheTypedText ==
    /\ lastOp = "processInput" =>
           \A i \in DOMAIN writes :
               LET w     == writes[i]
                   typed == SubSeq(entry.value, w.matchStart + 1, entry.cursorPosition)
                   abbr  == strToLowerCase(reverseString(typed))
                   first == entry.value[w.matchStart + 1]
                   want  == IF first \in Range(Uppers)
                            THEN CapitalizeFirst(added[abbr])
                            ELSE added[abbr]
               IN  /\ abbr \in DOMAIN added
                   /\ w.replacement = want
                   /\ Len(writes) = 1 =>
                          SubSeq(activeElement.value, w.matchStart + 1,
                                 w.matchStart + Len(want)) = want
    /\ (RanOn(OmwTyped, 3) /\ OnlyStored(Omw, OnMyWay)) =>
           activeElement.value = OnMyWayCapitalized

C4_Witness ==
    /\ RanOn(OmwTyped, 3) /\ OnlyStored(Omw, OnMyWay)
    /\ Len(writes) = 1
    /\ writes[1].replacement # writes[1].data

\* a response whose entry count is less than 4 or odd
InvalidCount(r) == r.feed /\ (Len(r.entry) < 4 \/ Len(r.entry) % 2 # 0)

\* a fresh traverser fed the characters of k ends on a leaf
Found(root, k) ==
    /\ k # <<>>
    /\ LET r == TraverseAll(root, k)
       IN  (\A i \in 1..Len(k) : r[i].couldTraverse) /\ r[Len(k)].isLeaf

\* C8: when the response handled has fewer than 4 entries or an odd number
\* of them, parseData returns the empty mapping and handleDataResponse still
\* clears the trie: no abbreviation matches any more, those known before
\* included, and the program goes on (onInput stays registered, later runs
\* of processInput replace nothing).
C8_InvalidResponseEmptiesTheTrie ==
    /\ (lastOp = "handleDataResponse" /\ InvalidCount(lastResponse)) =>
           /\ parseData(lastResponse) = <<>>
           /\ trie.own
           /\ DOMAIN Root.edges = {}
           /\ \A k \in Probes : ~Found(Root, k)
           /\ listeners = 1
    /\ (lastOp = "processInput" /\ DOMAIN Root.edges = {}) => writes = <<>>

\* a sheet of five cells arrived while the trie knew "a"
C8_Witness ==
    /\ lastOp = "handleDataResponse"
    /\ InvalidCount(lastResponse)
    /\ Len(lastResponse.entry) = 5
    /\ Found(prevRoot, <<"a">>)
    /\ ~Found(Root, <<"a">>)

\* C9: in every reachable state at most one timer for processInput is
\* pending, and it is the one processTimeout names.
C9_AtMostOnePendingTimer ==
    /\ Cardinality(timers) <= 1
    /\ \A t \in timers : t.id = processTimeout

\* a second event of a burst has replaced the timer of the first
C9_Witness ==
    /\ burst >= 2
    /\ processTimeout >= 2
    /\ Cardinality(timers) = 1

\* the timer the last qualifying input event set, as long as it is pending
LastTimer == [id |-> processTimeout, remaining |-> Max(0, WAIT_TIME - sinceInput)]

\* C10 as amended: after the last event of a burst there is no run of
\* processInput while that event's timer is pending and exactly one once it
\* has fired; a run happens only when WAIT_TIME has passed since the last
\* event, and it reads the text and the cursor the field has at that moment.
\* (A burst whose timer is due but has not run yet when a further event is
\* handled produces no run: that event cancels the timer.)
C10_OneRunAfterTheQuietPeriod ==
    /\ runs <= 1
    /\ nextTimerId > 1 =>
           \/ runs = 0 /\ timers = {LastTimer}
           \/ runs = 1 /\ timers = {}
    /\ lastOp = "processInput" =>
           /\ sinceInput >= WAIT_TIME
           /\ isEditableElement(atExpiry) =>
                  entry = [value |-> atExpiry.value,
                           cursorPosition |-> atExpiry.selectionStart]

\* two events less than WAIT_TIME apart, the cursor moved, then one run
C10_Witness ==
    /\ lastOp = "processInput"
    /\ burst >= 2
    /\ runs = 1
    /\ moved
    /\ Len(writes) = 1

\* C10 as stated: every burst produces exactly one run of processInput, so
\* when an event arrives WAIT_TIME or more after the previous one, the burst
\* that the previous one ended has had its run.
C10_EveryBurstRunsOnce ==
    [][(nextTimerId' > nextTimerId /\ nextTimerId > 1 /\ sinceInput >= WAIT_TIME)
           => runs = 1]_vars

(***************************************************************************)
(* Claims about main and the rebuild of the trie, checked under Spec.      *)
(***************************************************************************)
\* a step that is a call of main
MainStep == lastOp' = "main" /\ (lastOp # "main" \/ xhrs' # xhrs)
\* a step in which the host runs processInput
RunStep == lastOp' = "processInput" /\ runs' = runs + 1
\* a step in which an input event is dispatched
InputStep == nextTimerId' # nextTimerId \/ (lastOp' = "input" /\ lastOp # "input")

\* C11: after one or more calls of main, in any interleaving with responses
\* and input events, onInput is registered exactly once; every call of main
\* starts one new request; one input event schedules at most one timer, and
\* at most one processInput is pending after it.
C11_MainRegistersOnInputOnce ==
    [][/\ listeners' = (IF firstRun' THEN 1 ELSE 0)
       /\ MainStep => firstRun' /\ listeners' = 1 /\ xhrs' = xhrs + 1
       /\ InputStep => /\ nextTimerId' <= nextTimerId + 1
                       /\ Cardinality(timers') <= 1]_vars

\* main was called twice (two requests are in flight), then a character was
\* typed and its one timer is pending
C11_Witness ==
    /\ lastOp = "input"
    /\ xhrs = 2
    /\ firstRun /\ listeners = 1
    /\ Cardinality(timers) = 1

(***************************************************************************)
(* Claims about the scan loop of processInput, checked under SpecExpand.   *)
(***************************************************************************)
\* the position of the first terminal node the backward scan from offset
\* pos meets, or -1 when an edge is missing or the start of the text is
\* reached first
RECURSIVE FirstTerminal(_, _, _)
FirstTerminal(cursor, value, pos) ==
    IF pos < 0 THEN -1
    ELSE LET result == traverse(cursor, toLowerCase(value[pos + 1]))
         IN  IF ~result.couldTraverse THEN -1
             ELSE IF result.isLeaf THEN pos
             ELSE FirstTerminal(traverseCursor(cursor, toLowerCase(value[pos + 1])),
                                value, pos - 1)

\* the first terminal of the run that began in entry
EntryTerminal ==
    FirstTerminal(TrieTraverser(trie, protoRoot), entry.value, entry.cursorPosition - 1)

AtBoundary(value, pos) == pos = 0 \/ isBoundaryCharacter(value[pos])

\* C12: the boundary check is made only at the first terminal node the
\* backward scan reaches: a replacement starts there, and when that terminal
\* fails the boundary check the run applies no replacement, even when a
\* longer stored abbreviation ending at the cursor starts at a boundary.
C12_OnlyTheFirstTerminalIsChecked ==
    (lastOp = "processInput" /\ isEditableElement(atExpiry) /\ EntryTerminal >= 0) =>
        /\ ~AtBoundary(entry.value, EntryTerminal) => writes = <<>>
        /\ \A i \in DOMAIN writes : writes[i].matchStart = EntryTerminal

\* C13: once processInput has applied a replacement it stops scanning: one
\* run writes the field's text and cursor at most once, for every trie
\* (also one where a stored abbreviation is a suffix of another), text and
\* cursor offset.
C13_AtMostOneWritePerRun ==
    lastOp = "processInput" => Len(writes) <= 1

\* C14: when the backward scan meets a character with no outgoing edge from
\* the current node, or reaches the start of the text, without having met a
\* terminal node, processInput ends with the field's text and cursor
\* unchanged; so it does when no editable element is focused at expiry.
C14_NoMatchLeavesTheFieldAlone ==
    (/\ lastOp = "processInput"
     /\ \/ ~isEditableElement(atExpiry)
        \/ isEditableElement(atExpiry) /\ EntryTerminal = -1) =>
        /\ activeElement = atExpiry
        /\ writes = <<>>

\* a run on a trie with stored abbreviations whose scan followed an edge and
\* then met a character with no edge, before any terminal
C14_Witness ==
    /\ lastOp = "processInput"
    /\ isEditableElement(atExpiry)
    /\ EntryTerminal = -1
    /\ iterations = 2
    /\ entry.cursorPosition > 2
    /\ activeElement = atExpiry

\* the tries the adds of the mapping m build from an empty root, in any order
BuiltFrom(m) == {AddAll(TrieNode, o, m) : o \in Orders(DOMAIN m)}

\* C15: in every interleaving of responses and debounced runs, a run of
\* processInput traverses the complete trie of the response handled last
\* before it (the previous one while the new response is still awaited, the
\* new one afterwards), never a cleared or partly repopulated trie.
C15_RunsSeeACompleteTrie ==
    /\ Root \in BuiltFrom(added)
    /\ lastOp = "processInput" =>
           \E b \in BuiltFrom(added) :
               /\ writes = processInput(atExpiry, OwnRoot(b), TrieNode).writes
               /\ activeElement = processInput(atExpiry, OwnRoot(b), TrieNode).element

\* a run replaced text with the trie of a two-pair response while the
\* response of a later call of main was still awaited
C15_Witness ==
    /\ lastOp = "processInput"
    /\ xhrs > 0
    /\ Cardinality(DOMAIN added) = 2
    /\ Len(writes) >= 1

\* C16: a call of main does not change the trie; the trie changes only when
\* the onload of a request runs handleDataResponse, so that from the call
\* until then (for ever when the request fails) it keeps its content, and a
\* run of processInput in between matches against that content.
C16_MainLeavesTheTrieAlone ==
    [][/\ MainStep => UNCHANGED trieVars
       /\ ~(UNCHANGED trieVars) => lastOp' = "handleDataResponse" /\ xhrs' = xhrs - 1
       /\ (RunStep /\ xhrs > 0) =>
              /\ UNCHANGED trieVars
              /\ writes' = processInput(activeElement, trie, protoRoot).writes]_vars

\* main was called again while the trie held abbreviations, and a run made
\* before the response arrived expanded one of them
C16_Witness ==
    /\ lastOp = "processInput"
    /\ xhrs = 1
    /\ DOMAIN Root.edges # {}
    /\ writes # <<>>
    /\ activeElement.value # entry.value

(***************************************************************************)
(* Claims about the empty key and about Trie instances.                    *)
(***************************************************************************)
\* C17: adding the empty string as a key is legal and marks the root node
\* itself terminal, carrying the data given.
C17_EmptyKeyMarksTheRoot ==
    <<>> \in DOMAIN added => Root.isLeaf = TRUE /\ Root.data = added[<<>>]

\* the mapping of the response handled last
LastMapping == AddedBy(parseData(lastResponse), 1, NoEdges)

\* C18: when the responses of several calls of main arrive, in whatever
\* order, the trie after a response holds exactly the mapping of that
\* response, the one that completed last: it is the trie this response
\* builds from nothing, and no entry of an earlier response survives.
C18_LastResponseWins ==
    (lastOp = "handleDataResponse" /\ lastResponse.feed) =>
        LET m    == LastMapping
            keys == DOMAIN m \ {<<>>}
        IN  /\ trie = handleDataResponse(NoOwnRoot, TrieNode, lastResponse)
            /\ \A k \in Probes : Found(Root, k) <=> k \in keys
            /\ \A k \in keys : TraverseAll(Root, k)[Len(k)].data = m[k]

\* both requests have completed; the response handled last holds one
\* abbreviation, the trie before it held two
C18_Witness ==
    /\ lastOp = "handleDataResponse"
    /\ lastResponse.feed
    /\ xhrs = 0
    /\ Found(prevRoot, <<"a", "a">>)
    /\ ~Found(Root, <<"a", "a">>)
    /\ Found(Root, <<"a">>)

\* C19: every run of processInput terminates after at most
\* cursorPosition + 1 iterations of its loop, without reading past the
\* text, for every trie, text and cursor offset, also when a terminal node
\* is reached and a replacement is applied.
C19_ScanIsBoundedByTheCursor ==
    (lastOp = "processInput" /\ isEditableElement(atExpiry)) =>
        /\ iterations >= 1
        /\ iterations <= entry.cursorPosition + 1
        /\ ~processInput(atExpiry, trie, protoRoot).threw

\* a run that applied a replacement before the start of the text and went
\* on to the start
C19_Witness ==
    /\ lastOp = "processInput"
    /\ isEditableElement(atExpiry)
    /\ writes # <<>>
    /\ writes[1].matchStart > 0
    /\ iterations = entry.cursorPosition + 1

(***************************************************************************)
(* SpecTries: two Trie instances.  The first is the one of SpecTrie; a     *)
(* second one is constructed (lines 18-24), and add and clear are applied  *)
(* to either in every order.                                               *)
(***************************************************************************)
\* new Trie(): the constructor assigns Trie.prototype.root (line 23) and
\* gives the instance no property of its own
T2New ==
    /\ trie2 = NotConstructed
    /\ trie2' = NoOwnRoot
    /\ protoRoot' = TrieNode
    /\ lastOp' = "new Trie"
    /\ prevRoot' = TrieNode
    /\ UNCHANGED <<trie, addCalls, added, lastResponse>>

\* add on the second instance: the nodes of its this.root are changed
T2Add(k, v) ==
    /\ trie2 # NotConstructed
    /\ addCalls < MaxAdds
    /\ addCalls' = addCalls + 1
    /\ IF trie2.own
       THEN trie2' = OwnRoot(TrieAdd(RootOf(trie2, protoRoot), k, v))
            /\ protoRoot' = protoRoot
       ELSE protoRoot' = TrieAdd(RootOf(trie2, protoRoot), k, v) /\ trie2' = trie2
    /\ lastOp' = "add to second"
    /\ prevRoot' = TrieNode
    /\ UNCHANGED <<trie, added, lastResponse>>

\* clear on the second instance
T2Clear ==
    /\ trie2 # NotConstructed
    /\ trie2' = OwnRoot(TrieClear(RootOf(trie2, protoRoot)))
    /\ lastOp' = "clear second"
    /\ prevRoot' = TrieNode
    /\ UNCHANGED <<protoRoot, trie, addCalls, added, lastResponse>>

NextTries ==
    \/ \E k \in TrieKeys, v \in DataValues :
           TAdd(k, v) /\ UNCHANGED <<globVars, activeElement, scanHist, timeHist>>
    \/ TClear /\ UNCHANGED <<globVars, activeElement, scanHist, timeHist>>
    \/ T2New /\ UNCHANGED <<globVars, activeElement, scanHist, timeHist>>
    \/ \E k \in TrieKeys, v \in DataValues :
           T2Add(k, v) /\ UNCHANGED <<globVars, activeElement, scanHist, timeHist>>
    \/ T2Clear /\ UNCHANGED <<globVars, activeElement, scanHist, timeHist>>

SpecTries == InitT /\ [][NextTries]_vars

\* a step that constructs the second Trie or adds a key to it
SecondTrieStep ==
    \/ trie2 = NotConstructed /\ trie2' # NotConstructed
    \/ lastOp' = "add to second" /\ addCalls' = addCalls + 1

\* what a fresh traverser on the Trie instance t reports for the sequence k
Lookup(t, proto, k) == TraverseAll(TrieTraverser(t, proto), k)

\* C20: every Trie instance owns its root node: constructing a second Trie,
\* or adding keys to it, changes no result of a lookup on the Trie
\* constructed before.
C20_InstancesDoNotShareTheRoot ==
    [][SecondTrieStep =>
           \A k \in Probes : Lookup(trie', protoRoot', k) = Lookup(trie, protoRoot, k)]_vars

=============================================================================
